---------------------------- MODULE Spec2Model ----------------------------
(***************************************************************************)
(* Model of ICD10-pub: the ArgParser command-line token resolver, the      *)
(* fixed-width record parser parse_codes, and the threaded generator       *)
(* gen_files / gen_go_file.                                                *)
(*                                                                         *)
(* Strings are sequences of one-character strings; the empty string is     *)
(* <<>>.  Maps (std::unordered_map) are functions whose DOMAIN is the key  *)
(* set.                                                                    *)
(***************************************************************************)
EXTENDS Integers, Sequences, FiniteSets, TLC

VARIABLES
    \* ---- ArgParser members (ArgParser.hpp)
    keys_trans,     \* long key -> short key
    values,         \* canonical key -> value
    keys_found,     \* canonical key -> found flag
    key_order,      \* positional keys, in registration order
    short_keys,     \* set of short keys
    long_keys,      \* set of long keys
    \* ---- ArgParser::parse locals and position
    ppc,            \* "idle" | "scan"
    argv,           \* the argument vector of the running / last parse (argv[0] first)
    pi,             \* the loop index i of parse
    extras,         \* the deque of unassigned arguments
    adds,           \* number of add_token calls made so far
    words,          \* number of command-line words given to parse so far
    regs,           \* history: the <<short, long>> pairs registered with both keys non-empty
    hvreg,          \* history: per canonical key, has_value of any and of the last registration,
                    \* and whether a registration had both has_value and positional
    ctor,           \* the key lists the constructor was given, and how it ended
    call,           \* the key arguments and the result of the add_token call that has just returned
    \* ---- parse_codes parameters, locals and position
    lines,          \* the lines the blob is made of (constant during a run)
    data,           \* the blob
    ci,             \* the loop index i of parse_codes
    col,            \* the column counter
    hipaa,          \* the flag character last read
    code,           \* the ICDCode under construction
    codes,          \* the output vector
    cpc,            \* "loop" | "done" | "failed"
    oob,            \* a character was read beyond data[data.length()]
    emptyback,      \* back() was called on an empty description
    \* ---- gen_files parameters, locals, threads
    gcodes,         \* the record collection given to gen_files
    year,           \* the year string
    now,            \* the clock reading: days since the epoch and the local time fields
    buf,            \* the buffers ndec, dec, comb and *comb2
    gpc,            \* position of gen_files: [at: "spawn" | "join" | "append" | "done", n: thread]
    tpc,            \* per thread: "none" | "header" | "codes" | "footer" | "done"
    tk,             \* per thread: index of the next record of its loop
    ended,          \* history: the threads in the order they ended
    \* ---- work and the functions it calls
    state,          \* the ProgramState fields the chain tests and assigns
    wpc,            \* the function whose body runs next | "work" | "join" | "returned"
    wret,           \* what work returned: "none" | TRUE | FALSE
    ran,            \* history: the stages that ran, in order, and how each ended
    wthreads,       \* per compression thread: "none" | "run" | "done"
    zips            \* per output buffer: number of compress_data calls made on it

argvars == <<keys_trans, values, keys_found, key_order, short_keys, long_keys,
             ppc, argv, pi, extras, adds, words, regs, hvreg, ctor, call>>

codevars == <<lines, data, ci, col, hipaa, code, codes, cpc, oob, emptyback>>

genvars == <<gcodes, year, now, buf, gpc, tpc, tk, ended>>

workvars == <<state, wpc, wret, ran, wthreads, zips>>

vars == <<argvars, codevars, genvars, workvars>>

-----------------------------------------------------------------------------
(* Bounds *)
MaxAdds == 1
MaxArgs == 3

-----------------------------------------------------------------------------
(* Strings *)
E == <<>>
NUL == "\\0"

\* s[k] of a NUL-terminated C string / std::string (0-based; NUL at the end)
At(s, k) == IF k < Len(s) THEN s[k + 1] ELSE NUL

\* the C string that starts k characters into s (argv[i] + k)
Drop(s, k) == SubSeq(s, k + 1, Len(s))

\* std::string::ends_with(char)
EndsWith(s, c) == Len(s) > 0 /\ s[Len(s)] = c

\* std::string::pop_back
PopBack(s) == SubSeq(s, 1, Len(s) - 1)

\* operator[] assignment m[k] = v
Assign(m, k, v) == IF k \in DOMAIN m THEN [m EXCEPT ![k] = v] ELSE m @@ (k :> v)

\* mutant of Insert: an insert that overwrites the slot of an existing key
InsertOverwrites(m, k, v) == Assign(m, k, v)

\* std::unordered_map::insert({k, v}): no effect when k is already a key
Insert(m, k, v) == IF k \in DOMAIN m THEN m ELSE m @@ (k :> v)

Empty == [x \in {} |-> E]

-----------------------------------------------------------------------------
(* The registry as a value, so that init and add_token are operators *)
Reg(kt, vs, kf, ko, sk, lk) ==
    [keys_trans |-> kt, values |-> vs, keys_found |-> kf,
     key_order |-> ko, short_keys |-> sk, long_keys |-> lk]

EmptyReg == Reg(Empty, Empty, Empty, <<>>, {}, {})

CurReg == Reg(keys_trans, values, keys_found, key_order, short_keys, long_keys)

\* the alias link made when both keys are non-empty
Link(r, short_token, long_token) ==
    IF long_token # E /\ short_token # E
    THEN [r EXCEPT !.keys_trans = Insert(r.keys_trans, long_token, short_token),
                   !.long_keys = r.long_keys \cup {long_token}]
    ELSE r

\* mutant of Slot: a positional key is listed whether or not it has a value
SlotListsValueless(r, key, has_value, positional) ==
    [r EXCEPT !.values = IF has_value THEN Insert(r.values, key, E) ELSE r.values,
              !.keys_found = Insert(r.keys_found, key, FALSE),
              !.key_order = IF positional THEN Append(r.key_order, key) ELSE r.key_order]

\* mutant of Slot: no found flag is inserted
SlotNoFound(r, key, has_value, positional) ==
    [r EXCEPT !.values = IF has_value THEN Insert(r.values, key, E) ELSE r.values,
              !.key_order = IF has_value /\ positional
                            THEN Append(r.key_order, key) ELSE r.key_order]

\* the slots of one canonical key
Slot(r, key, has_value, positional) ==
    [r EXCEPT !.values = IF has_value THEN Insert(r.values, key, E) ELSE r.values,
              !.keys_found = Insert(r.keys_found, key, FALSE),
              !.key_order = IF has_value /\ positional
                            THEN Append(r.key_order, key) ELSE r.key_order]

\* one registration: the body of add_token after the emptiness test
Register(r, short_token, long_token, has_value, positional) ==
    LET r1 == Link(r, short_token, long_token) IN
    IF short_token # E
    THEN LET r2 == Slot(r1, short_token, has_value, positional)
         IN  [r2 EXCEPT !.short_keys = r2.short_keys \cup {short_token}]
    ELSE IF long_token # E
    THEN LET r2 == Slot(r1, long_token, has_value, positional)
         IN  [r2 EXCEPT !.long_keys = r2.long_keys \cup {long_token}]
    ELSE r1

\* mutant of add_token: the emptiness test is missing
add_token_untested(r, short_token, long_token, has_value, positional) ==
    [reg |-> Register(r, short_token, long_token, has_value, positional), ret |-> TRUE]

\* bool add_token(short_token, long_token, has_value, positional) on the
\* registry r: the registry it leaves and the value it returns
add_token(r, short_token, long_token, has_value, positional) ==
    IF short_token = E /\ long_token = E
    THEN [reg |-> r, ret |-> FALSE]
    ELSE [reg |-> Register(r, short_token, long_token, has_value, positional), ret |-> TRUE]

\* no add_token call has just returned
NoCall == <<>>

\* the loop of ArgParser::init over the parallel key lists
RECURSIVE InitLoop(_, _, _, _)
InitLoop(r, tokens_short, tokens_long, i) ==
    IF i > Len(tokens_short) THEN r
    ELSE InitLoop(Register(r, tokens_short[i], tokens_long[i], TRUE, TRUE),
                  tokens_short, tokens_long, i + 1)

\* mutant of init: only a longer short-key list is rejected
init_one_sided(tokens_short, tokens_long) ==
    IF Len(tokens_short) > Len(tokens_long)
    THEN [throws |-> TRUE, reg |-> EmptyReg]
    ELSE [throws |-> FALSE, reg |-> InitLoop(EmptyReg, tokens_short, tokens_long, 1)]

\* void init(tokens_short, tokens_long): whether it throws invalid_argument,
\* and the registry it leaves
init(tokens_short, tokens_long) ==
    IF Len(tokens_short) # Len(tokens_long)
    THEN [throws |-> TRUE, reg |-> EmptyReg]
    ELSE [throws |-> FALSE, reg |-> InitLoop(EmptyReg, tokens_short, tokens_long, 1)]

\* the constructor record of a parser built from a list of pairs
Built(tokens) ==
    [tokens_short |-> [k \in 1..Len(tokens) |-> tokens[k][1]],
     tokens_long |-> [k \in 1..Len(tokens) |-> tokens[k][2]],
     at |-> "built"]

\* ArgParser(const vector<pair<string,string>> &tokens)
CtorPairs(tokens) ==
    InitLoop(EmptyReg, [k \in 1..Len(tokens) |-> tokens[k][1]],
                       [k \in 1..Len(tokens) |-> tokens[k][2]], 1)

\* bool found(token)
found(token) ==
    LET key == IF token \in DOMAIN keys_trans THEN keys_trans[token] ELSE token
    IN  IF key \in DOMAIN keys_found THEN keys_found[key] ELSE FALSE

\* string get_value(token); "throw" stands for the out_of_range of keys_found.at
get_value(token) ==
    LET key == IF token \in DOMAIN keys_trans THEN keys_trans[token] ELSE token
    IN  IF key \in DOMAIN values
        THEN IF key \in DOMAIN keys_found
             THEN (IF keys_found[key] THEN values[key] ELSE E)
             ELSE "throw"
        ELSE E

\* the parse_codes variables while the ArgParser is the subject
CodesIdle ==
    /\ lines = <<>> /\ data = <<>> /\ ci = 0 /\ col = 0 /\ hipaa = NUL
    /\ code = [code |-> E, dec_code |-> E, desc |-> E]
    /\ codes = <<>> /\ cpc = "done" /\ oob = FALSE /\ emptyback = FALSE

\* the gen_files variables while another function is the subject
GenIdle ==
    /\ gcodes = <<>> /\ year = "" /\ now = [days |-> 0]
    /\ buf = [b \in {} |-> <<>>] /\ gpc = [at |-> "done", n |-> 0]
    /\ tpc = <<>> /\ tk = <<>> /\ ended = <<>>

\* the work variables while another function is the subject
WorkIdle ==
    /\ state = [outp |-> "ok"] /\ wpc = "returned" /\ wret = "none"
    /\ ran = <<>> /\ wthreads = <<>> /\ zips = <<>>

-----------------------------------------------------------------------------
(* Inputs of the ArgParser model *)
A == <<"a">>
B == <<"b">>
L == <<"l">>

\* the key a registration files its slots under: the short key, or the long
\* key when the short key is empty
Canonical(short_token, long_token) == IF short_token # E THEN short_token ELSE long_token

\* the has_value history with one more registration of key
Logged(h, key, has_value, positional) ==
    Assign(h, key, [any |-> has_value \/ (key \in DOMAIN h /\ h[key].any),
                    last |-> has_value,
                    both |-> (has_value /\ positional) \/ (key \in DOMAIN h /\ h[key].both)])

\* the pairs of a list with both keys non-empty, in order
RECURSIVE PairsOf(_)
PairsOf(tokens) ==
    IF tokens = <<>> THEN <<>>
    ELSE (IF Head(tokens)[1] # E /\ Head(tokens)[2] # E THEN <<Head(tokens)>> ELSE <<>>)
         \o PairsOf(Tail(tokens))

\* the pair lists the constructor is called with
CtorLists ==
    { <<>>,
      << <<A, L>> >>,
      << <<E, L>> >>,
      << <<A, E>>, <<B, E>>, <<L, E>> >>,
      << <<A, L>>, <<B, L>> >>,
      << <<A, L>>, <<L, B>> >> }

AddShorts == {E, A, B}
AddLongs == {E, L}

\* the command-line words
Tokens ==
    { <<"-", "a">>, <<"-", "-", "l">>, <<"/", "b">>,
      <<"x">>, <<"\"", "y", "\"">> }

Prog == <<"p">>

RECURSIVE SeqsUpTo(_, _)
SeqsUpTo(S, n) ==
    IF n = 0 THEN {<<>>}
    ELSE LET shorter == SeqsUpTo(S, n - 1)
         IN  shorter \cup {Append(q, t) : q \in {x \in shorter : Len(x) = n - 1}, t \in S}

ArgVectors == {<<Prog>> \o q : q \in SeqsUpTo(Tokens, MaxArgs)}

-----------------------------------------------------------------------------
(* ArgParser::parse *)
argc == Len(argv)
last_kwd == argc - 1

\* argv[k], 0-based as in the source
Argv(k) == argv[k + 1]

IsOption(tok) == At(tok, 0) = "-" \/ At(tok, 0) = "/"

\* mutant of LookupKey: the text after the prefix is the key, registered or not
LookupKeyStripped(tok) ==
    IF At(tok, 0) = "-" /\ At(tok, 1) = "-" THEN Drop(tok, 2) ELSE Drop(tok, 1)

\* the key an option token is looked up under (before alias translation)
LookupKey(tok) ==
    IF At(tok, 0) = "-" /\ At(tok, 1) = "-"
    THEN (IF Drop(tok, 2) \in long_keys THEN Drop(tok, 2) ELSE tok)
    ELSE (IF Drop(tok, 1) \in short_keys THEN Drop(tok, 1) ELSE tok)

\* ... after alias translation
ResolveKey(tok) ==
    LET arg == LookupKey(tok)
    IN  IF arg \in DOMAIN keys_trans THEN keys_trans[arg] ELSE arg

\* mutant of ConsumesNext: the bound on i is off by one
ConsumesNextOffByOne(arg) == pi + 1 < last_kwd /\ arg \in DOMAIN values

\* mutant of ConsumesNext: every matched key takes the next argument
ConsumesNextAlways(arg) == pi < last_kwd

\* whether the matched key takes the next argument as its value
ConsumesNext(arg) == pi < last_kwd /\ arg \in DOMAIN values

\* mutant of StripQuotes: every leading and every trailing double quote is removed
RECURSIVE StripAllQuotes(_)
StripAllQuotes(tok) ==
    IF At(tok, 0) = "\"" THEN StripAllQuotes(Drop(tok, 1))
    ELSE IF EndsWith(tok, "\"") THEN StripAllQuotes(PopBack(tok))
    ELSE tok

\* a bare argument with one leading and one trailing double quote removed
StripQuotes(tok) ==
    LET arg == Drop(tok, IF At(tok, 0) = "\"" THEN 1 ELSE 0)
    IN  IF EndsWith(arg, "\"") THEN PopBack(arg) ELSE arg

\* mutant of Backfill: the extras are taken from the back of the deque
RECURSIVE BackfillFromBack(_, _)
BackfillFromBack(st, k) ==
    IF k > Len(key_order) \/ st.extras = <<>> THEN st
    ELSE LET it == key_order[k] IN
         IF ~st.keys_found[it] /\ it \in DOMAIN st.values
         THEN BackfillFromBack([values |-> Assign(st.values, it, st.extras[Len(st.extras)]),
                                keys_found |-> Assign(st.keys_found, it, TRUE),
                                extras |-> PopBack(st.extras)], k + 1)
         ELSE BackfillFromBack(st, k + 1)

\* the backfill loop over key_order, from position k; st = [values, keys_found, extras]
RECURSIVE Backfill(_, _)
Backfill(st, k) ==
    IF k > Len(key_order) \/ st.extras = <<>> THEN st
    ELSE LET it == key_order[k] IN
         IF ~st.keys_found[it] /\ it \in DOMAIN st.values
         THEN Backfill([values |-> Assign(st.values, it, Head(st.extras)),
                        keys_found |-> Assign(st.keys_found, it, TRUE),
                        extras |-> Tail(st.extras)], k + 1)
         ELSE Backfill(st, k + 1)

\* mutant of PushRaw: an unmatched option word is stripped of quotes like a bare word
PushStripped(q, tok) == Append(q, StripQuotes(tok))

\* extras.push_back(argv[i]) for an option word that matches no key
PushRaw(q, tok) == Append(q, tok)

ParseBegin ==
    /\ ppc = "idle"
    /\ \E av \in ArgVectors :
        /\ words + Len(av) - 1 <= MaxArgs
        /\ words' = words + Len(av) - 1
        /\ argv' = av
        /\ pi' = 1
        /\ extras' = <<>>
        /\ ppc' = "scan"
    /\ UNCHANGED <<keys_trans, values, keys_found, key_order, short_keys, long_keys, adds, regs, hvreg, ctor>>
    /\ call' = NoCall
    /\ UNCHANGED <<codevars, genvars, workvars>>

\* one iteration of the scan loop on an option token
ScanOption ==
    /\ ppc = "scan" /\ pi < argc /\ IsOption(Argv(pi))
    /\ LET arg == ResolveKey(Argv(pi)) IN
       IF arg \in DOMAIN keys_found
       THEN /\ keys_found' = Assign(keys_found, arg, TRUE)
            /\ IF ConsumesNext(arg)
               THEN /\ values' = Assign(values, arg, Argv(pi + 1))
                    /\ pi' = pi + 2
               ELSE /\ values' = values
                    /\ pi' = pi + 1
            /\ extras' = extras
       ELSE /\ extras' = PushRaw(extras, Argv(pi))
            /\ pi' = pi + 1
            /\ UNCHANGED <<values, keys_found>>
    /\ UNCHANGED <<keys_trans, key_order, short_keys, long_keys, ppc, argv, adds, words, regs, hvreg, ctor, call>>
    /\ UNCHANGED <<codevars, genvars, workvars>>

\* one iteration of the scan loop on a bare argument
ScanBare ==
    /\ ppc = "scan" /\ pi < argc /\ ~IsOption(Argv(pi))
    /\ extras' = Append(extras, StripQuotes(Argv(pi)))
    /\ pi' = pi + 1
    /\ UNCHANGED <<keys_trans, values, keys_found, key_order, short_keys, long_keys,
                   ppc, argv, adds, words, regs, hvreg, ctor, call>>
    /\ UNCHANGED <<codevars, genvars, workvars>>

\* the end of the scan loop, the backfill loop, and the return
ParseBackfill ==
    /\ ppc = "scan" /\ pi >= argc
    /\ LET st == Backfill([values |-> values, keys_found |-> keys_found,
                           extras |-> extras], 1)
       IN  /\ values' = st.values
           /\ keys_found' = st.keys_found
    \* the locals end with the call
    /\ extras' = <<>>
    /\ argv' = <<Prog>>
    /\ pi' = 1
    /\ ppc' = "idle"
    /\ UNCHANGED <<keys_trans, key_order, short_keys, long_keys, adds, words, regs, hvreg, ctor, call>>
    /\ UNCHANGED <<codevars, genvars, workvars>>

\* a call of add_token, from entry to return
AddToken ==
    /\ ppc = "idle" /\ adds < MaxAdds
    /\ \E short_token \in AddShorts, long_token \in AddLongs,
          has_value \in BOOLEAN, positional \in BOOLEAN :
        LET res == add_token(CurReg, short_token, long_token, has_value, positional)
            r == res.reg
        IN  /\ call' = [short_token |-> short_token, long_token |-> long_token,
                        ret |-> res.ret]
            /\ keys_trans' = r.keys_trans
            /\ values' = r.values
            /\ keys_found' = r.keys_found
            /\ key_order' = r.key_order
            /\ short_keys' = r.short_keys
            /\ long_keys' = r.long_keys
            /\ regs' = IF short_token # E /\ long_token # E
                        THEN Append(regs, <<short_token, long_token>>) ELSE regs
            /\ hvreg' = IF short_token = E /\ long_token = E THEN hvreg
                         ELSE Logged(hvreg, Canonical(short_token, long_token), has_value, positional)
    /\ adds' = adds + 1
    /\ UNCHANGED <<ppc, argv, pi, extras, words, ctor>>
    /\ UNCHANGED <<codevars, genvars, workvars>>

InitArgs ==
    /\ \E tokens \in CtorLists :
        LET r == CtorPairs(tokens)
        IN  /\ keys_trans = r.keys_trans
            /\ values = r.values
            /\ keys_found = r.keys_found
            /\ key_order = r.key_order
            /\ short_keys = r.short_keys
            /\ long_keys = r.long_keys
            /\ regs = PairsOf(tokens)
            /\ hvreg = [key \in DOMAIN r.keys_found |-> [any |-> TRUE, last |-> TRUE, both |-> TRUE]]
            /\ ctor = Built(tokens)
    /\ ppc = "idle"
    /\ argv = <<Prog>>
    /\ pi = 1
    /\ extras = <<>>
    /\ adds = 0
    /\ words = 0
    /\ call = NoCall
    /\ CodesIdle
    /\ GenIdle
    /\ WorkIdle

NextArgs == AddToken \/ ParseBegin \/ ScanOption \/ ScanBare \/ ParseBackfill

SpecArgs == InitArgs /\ [][NextArgs]_vars

-----------------------------------------------------------------------------
(* Claims on the ArgParser, checked under SpecArgs *)

Min(a, b) == IF a < b THEN a ELSE b

\* the long key of pair k was not linked earlier to another short key,
\* and its short key is never the long key of a linked pair
SoleAlias(k) ==
    /\ \A j \in 1..(k - 1) : regs[j][2] = regs[k][2] => regs[j][1] = regs[k][1]
    /\ \A j \in 1..Len(regs) : regs[j][2] # regs[k][1]

\* C2 (as claimed): for every registered pair (short s, long l) with both
\* non-empty, after any registrations and any parse, found(s) = found(l) and
\* get_value(s) = get_value(l).
C2_AliasSymmetryClaimed ==
    ppc = "idle" =>
        \A k \in 1..Len(regs) :
            /\ found(regs[k][1]) = found(regs[k][2])
            /\ get_value(regs[k][1]) = get_value(regs[k][2])

\* C2 (amended): the symmetry holds for every registered pair (s, l), both
\* non-empty, whose long key l was not registered earlier with a different
\* non-empty short key and whose short key s is never registered as the long
\* key of a pair with a non-empty short key.
C2_AliasSymmetry ==
    \A k \in 1..Len(regs) : SoleAlias(k) =>
        /\ found(regs[k][1]) = found(regs[k][2])
        /\ get_value(regs[k][1]) = get_value(regs[k][2])

\* C2 witness: the pair (a, l) is registered, a parse has found it through
\* its long spelling, and both spellings report the value
C2_Witness ==
    /\ ppc = "idle" /\ words = 2
    /\ regs = << <<A, L>> >>
    /\ found(A) /\ found(L)
    /\ get_value(L) = <<"x">> /\ get_value(A) = <<"x">>

\* the distinct keys of key_order from position k on that are unfound and
\* value-bearing, in order of first registration
RECURSIVE Pending(_, _)
Pending(k, seen) ==
    IF k > Len(key_order) THEN <<>>
    ELSE LET key == key_order[k] IN
         IF key \notin seen /\ key \in DOMAIN values /\ ~keys_found[key]
         THEN <<key>> \o Pending(k + 1, seen \cup {key})
         ELSE Pending(k + 1, seen)

\* C3: positional backfill: the j-th extra goes to the j-th still-unfound
\* value-bearing positional key in registration order, which becomes found;
\* every other key keeps its found flag and its value (found keys are
\* skipped, keys beyond the supply of extras stay unfound, extras beyond the
\* supply of keys go nowhere).
C3_Backfill ==
    [][(ppc = "scan" /\ pi >= argc) =>
        LET P == Pending(1, {})
            n == Min(Len(P), Len(extras))
            given == {P[j] : j \in 1..n}
        IN  /\ DOMAIN values' = DOMAIN values
            /\ DOMAIN keys_found' = DOMAIN keys_found
            /\ \A j \in 1..n : values'[P[j]] = extras[j] /\ keys_found'[P[j]]
            /\ \A key \in DOMAIN keys_found \ given : keys_found'[key] = keys_found[key]
            /\ \A key \in DOMAIN values \ given : values'[key] = values[key]
      ]_vars

\* C3 witness: keys a, b, l registered in that order and three bare words
\* x, "y", x with no flags: a, b, l hold x, y, x
C3_Witness ==
    /\ ppc = "idle" /\ words = 3
    /\ key_order = <<A, B, L>>
    /\ keys_found = (A :> TRUE) @@ (B :> TRUE) @@ (L :> TRUE)
    /\ values = (A :> <<"x">>) @@ (B :> <<"y">>) @@ (L :> <<"x">>)

\* C4: an option token that resolves to a registered value-bearing key marks
\* the key found; when it is not the last argument the key's value becomes the
\* next argument verbatim and that argument is skipped (not scanned, not put
\* in extras); when it is the last argument the value stays as it was.
C4_ValueConsumption ==
    [][(/\ ppc = "scan" /\ pi < argc /\ IsOption(Argv(pi))
        /\ ResolveKey(Argv(pi)) \in DOMAIN keys_found
        /\ ResolveKey(Argv(pi)) \in DOMAIN values) =>
        LET key == ResolveKey(Argv(pi)) IN
        /\ keys_found'[key]
        /\ \A other \in DOMAIN keys_found \ {key} : keys_found'[other] = keys_found[other]
        /\ \A other \in DOMAIN values \ {key} : values'[other] = values[other]
        /\ extras' = extras
        /\ IF pi + 1 < argc
           THEN values'[key] = argv[pi + 2] /\ pi' = pi + 2
           ELSE values'[key] = values[key] /\ pi' = pi + 1
      ]_vars

\* C4 witness: "--l -a" has been scanned: the key of l holds the word "-a",
\* which was neither scanned as an option nor queued
C4_Witness ==
    /\ ppc = "scan" /\ pi = 3 /\ argc = 3
    /\ argv[2] = <<"-", "-", "l">> /\ argv[3] = <<"-", "a">>
    /\ L \in DOMAIN keys_trans /\ keys_trans[L] = A
    /\ keys_found[A] /\ values[A] = <<"-", "a">>
    /\ extras = <<>>

-----------------------------------------------------------------------------
(* parse_codes: the fixed-width record parser *)

\* the column constants of parse_codes
FirstIndex == 6
CodeEndCol == 14
JumpCol == 13
DotCol == 9
FlagSkip == 62
DescCol == 77
ResetCol == 5
LineSkip == 6

LF == "\n"
CR == "\r"
SP == " "

data_len == Len(data)

\* what a build can read beyond data[data.length()]
Garbage == {LF, "s"}

\* the values data[k] can have: the character, the terminating NUL at
\* k = data.length(), anything beyond it
ReadAt(k) ==
    IF k < data_len THEN {data[k + 1]}
    ELSE IF k = data_len THEN {NUL}
    ELSE Garbage

IsOob(k) == k > data_len

NewCode == [code |-> E, dec_code |-> E, desc |-> E]

\* while (code.desc.back() == ' ') code.desc.pop_back();
\* back() of an empty string is undefined: ub is set
RECURSIVE StripTrailing(_)
StripTrailing(desc) ==
    IF desc = <<>> THEN [desc |-> <<>>, ub |-> TRUE]
    ELSE IF desc[Len(desc)] = SP THEN StripTrailing(PopBack(desc))
    ELSE [desc |-> desc, ub |-> FALSE]

\* mutant of DecPush: the dot is written after the character of column 9
DecPushDotLate(dec_code, column, c) ==
    IF column = DotCol THEN Append(Append(dec_code, c), ".") ELSE Append(dec_code, c)

\* if (col == 9) dec_code.push_back('.'); dec_code.push_back(data[i]);
DecPush(dec_code, column, c) ==
    IF column = DotCol THEN Append(Append(dec_code, "."), c) ELSE Append(dec_code, c)

\* the if / else-if chain of the loop body at index s.i; the set of outcomes
Branch(s) ==
    IF s.col >= FirstIndex /\ s.col < CodeEndCol
    THEN { IF c = SP
           THEN [s EXCEPT !.i = s.i + (JumpCol - s.col), !.col = JumpCol]
           ELSE [s EXCEPT !.code.code = Append(@, c),
                          !.code.dec_code = DecPush(@, s.col, c)]
           : c \in ReadAt(s.i) }
    ELSE IF s.col = CodeEndCol
    THEN { [s EXCEPT !.hipaa = c, !.i = s.i + FlagSkip, !.col = s.col + FlagSkip]
           : c \in ReadAt(s.i) }
    ELSE IF s.hipaa = "1" /\ s.col >= DescCol
    THEN UNION { IF c = CR \/ c = LF
                 THEN LET r == StripTrailing(s.code.desc) IN
                      IF r.ub
                      THEN { [s EXCEPT !.code.desc = r.desc, !.emptyback = TRUE],
                             [s EXCEPT !.emptyback = TRUE, !.failed = TRUE] }
                      ELSE { [s EXCEPT !.code.desc = r.desc] }
                 ELSE { [s EXCEPT !.code.desc = Append(@, c)] }
                 : c \in ReadAt(s.i) }
    ELSE {s}

\* mutant of PushIfFlagged: a record whose code is already in the collection is dropped
PushUnlessRepeated(s) ==
    IF s.hipaa = "1" /\ \A k \in 1..Len(s.codes) : s.codes[k].code # s.code.code
    THEN Append(s.codes, s.code) ELSE s.codes

\* mutant of PushIfFlagged: the record is kept whatever the flag is
PushAlways(s) == Append(s.codes, s.code)

\* if (hipaa == '1') codes.push_back(move(code));
PushIfFlagged(s) == IF s.hipaa = "1" THEN Append(s.codes, s.code) ELSE s.codes

\* the line-end test that closes the loop body; the set of outcomes
LineEnd(s) ==
    UNION { IF c = CR \/ c = LF
            THEN { LET i1 == IF c = CR /\ n = LF THEN s.i + 1 ELSE s.i
                   IN  [s EXCEPT !.i = i1 + LineSkip,
                                 !.col = ResetCol,
                                 !.codes = PushIfFlagged(s),
                                 !.code = NewCode,
                                 !.oob = @ \/ IsOob(s.i) \/ (c = CR /\ IsOob(s.i + 1))]
                   : n \in IF c = CR THEN ReadAt(s.i + 1) ELSE {NUL} }
            ELSE { [s EXCEPT !.oob = @ \/ IsOob(s.i)] }
            : c \in ReadAt(s.i) }

\* bool comp_icdcode(a, b): a.code < b.code, std::string's operator<
CharOrder == <<LF, CR, SP, ".", "0", "1", "A", "B", "F", "o", "s">>

Ord(c) == CHOOSE k \in 1..Len(CharOrder) : CharOrder[k] = c

RECURSIVE StrLess(_, _)
StrLess(a, b) ==
    IF b = <<>> THEN FALSE
    ELSE IF a = <<>> THEN TRUE
    ELSE IF Head(a) = Head(b) THEN StrLess(Tail(a), Tail(b))
    ELSE Ord(Head(a)) < Ord(Head(b))

\* mutant of comp_icdcode: the comparison is reversed
comp_reversed(a, b) == StrLess(b.code, a.code)

comp_icdcode(a, b) == StrLess(a.code, b.code)

\* mutant of SortOutcomes: the record under construction is kept at the end of the blob
SortOutcomesFlushing(v) ==
    LET w == Append(v, code)
        n == Len(w)
        perms == {f \in [1..n -> 1..n] : \A a, b \in 1..n : a # b => f[a] # f[b]}
    IN  { [k \in 1..n |-> w[f[k]]] :
          f \in {g \in perms : \A k \in 1..(n - 1) : ~StrLess(w[g[k + 1]].code, w[g[k]].code)} }

\* the results std::sort(begin, end, comp_icdcode) can leave: the
\* rearrangements of v in which no element is less than the one before it
\* (the relative order of equivalent elements is unspecified)
SortOutcomes(v) ==
    LET n == Len(v)
        perms == {f \in [1..n -> 1..n] : \A a, b \in 1..n : a # b => f[a] # f[b]}
    IN  { [k \in 1..n |-> v[f[k]]] :
          f \in {g \in perms : \A k \in 1..(n - 1) : ~comp_icdcode(v[g[k + 1]], v[g[k]])} }

\* one iteration of the for loop (body, then col++ and ++i)
ParseStep ==
    /\ cpc = "loop" /\ ci < data_len
    /\ \E s1 \in Branch([i |-> ci, col |-> col, hipaa |-> hipaa, code |-> code,
                         codes |-> codes, oob |-> oob, emptyback |-> emptyback,
                         failed |-> FALSE]) :
        IF s1.failed
        THEN /\ cpc' = "failed"
             /\ emptyback' = s1.emptyback
             /\ UNCHANGED <<ci, col, hipaa, code, codes, oob>>
        ELSE \E s2 \in LineEnd(s1) :
             /\ ci' = s2.i + 1
             /\ col' = s2.col + 1
             /\ hipaa' = s2.hipaa
             /\ code' = s2.code
             /\ codes' = s2.codes
             /\ oob' = s2.oob
             /\ emptyback' = s2.emptyback
             /\ cpc' = cpc
    /\ UNCHANGED <<lines, data>>
    /\ UNCHANGED <<argvars, genvars, workvars>>

\* the loop exit, shrink_to_fit, the sort and the return
ParseFinish ==
    /\ cpc = "loop" /\ ci >= data_len
    /\ codes' \in SortOutcomes(codes)
    /\ cpc' = "done"
    /\ UNCHANGED <<lines, data, ci, col, hipaa, code, oob, emptyback>>
    /\ UNCHANGED <<argvars, genvars, workvars>>

-----------------------------------------------------------------------------
(* Inputs of the parse_codes model: blobs made of fixed-width lines *)

MaxLines == 2

\* columns 0..5: the order number and a blank
SeqNo == <<"0", "0", "0", "0", "1", SP>>

\* columns 15..76: the short description between the flag and the description
Filler == [k \in 1..FlagSkip |-> "s"]

CodeFields ==
    { <<"A", "0", "0", "1", "0", "0", "0", "0">>,
      <<"A", "0", "0", "1", SP, SP, SP, SP>>,
      <<"A", "0", "0", SP, SP, SP, SP, SP>>,
      <<"B", "1", SP, "A", SP, SP, SP, SP>> }

Foo2 == <<"F", "o", "o", SP, SP>>
F_o == <<"F", SP, "o">>

LineOf(cf, fl, d, t, c) == [code |-> cf, flag |-> fl, desc |-> d, term |-> t, cut |-> c]

FullCode == <<"A", "0", "0", "1", "0", "0", "0", "0">>

\* cut = 0: the whole line; cut = n > 0: the line is truncated to n columns
LineKinds ==
    { LineOf(cf, fl, Foo2, t, 0) : cf \in CodeFields, fl \in {"1", "0"},
                                   t \in {<<LF>>, <<CR, LF>>} }
    \cup { LineOf(FullCode, "1", F_o, <<LF>>, 0),
           LineOf(FullCode, SP, Foo2, <<LF>>, 0),
           LineOf(FullCode, "1", <<>>, <<LF>>, 0),
           LineOf(FullCode, "1", <<SP, SP>>, <<CR, LF>>, 0),
           LineOf(FullCode, "1", Foo2, <<>>, 0),
           LineOf(FullCode, "1", Foo2, <<LF>>, 3),
           LineOf(FullCode, "1", Foo2, <<LF>>, 10),
           LineOf(FullCode, "1", Foo2, <<LF>>, 14),
           LineOf(FullCode, "1", Foo2, <<CR, LF>>, 40) }

\* the characters of a line
Text(l) ==
    LET full == SeqNo \o l.code \o <<l.flag>> \o Filler \o l.desc
    IN  (IF l.cut > 0 THEN SubSeq(full, 1, l.cut) ELSE full) \o l.term

RECURSIVE Concat(_)
Concat(ls) == IF ls = <<>> THEN <<>> ELSE Text(Head(ls)) \o Concat(Tail(ls))

ArgsIdle ==
    /\ keys_trans = Empty /\ values = Empty /\ keys_found = Empty
    /\ key_order = <<>> /\ short_keys = {} /\ long_keys = {}
    /\ ppc = "idle" /\ argv = <<Prog>> /\ pi = 1 /\ extras = <<>>
    /\ adds = 0 /\ words = 0 /\ regs = <<>> /\ hvreg = Empty /\ call = NoCall
    /\ ctor = Built(<<>>)

\* the state at the first loop test of parse_codes
InitCodes ==
    /\ lines \in SeqsUpTo(LineKinds, MaxLines)
    /\ data = Concat(lines)
    /\ ci = FirstIndex
    /\ col = FirstIndex
    /\ hipaa = NUL
    /\ code = NewCode
    /\ codes = <<>>
    /\ cpc = "loop"
    /\ oob = FALSE
    /\ emptyback = FALSE
    /\ ArgsIdle
    /\ GenIdle
    /\ WorkIdle

NextCodes == ParseStep \/ ParseFinish

SpecCodes == InitCodes /\ [][NextCodes]_vars

-----------------------------------------------------------------------------
(* Claims on parse_codes, checked under SpecCodes *)

\* a terminated line of at least 77 columns
WellFormed(l) == l.cut = 0 /\ l.term # <<>>

\* lines 1..k are all well-formed, so line k starts at column 0 of its own
WfPrefix(k) == \A j \in 1..k : WellFormed(lines[j])

\* the 0-based index in the blob of the first character of line k
RECURSIVE LineStart(_)
LineStart(k) == IF k = 1 THEN 0 ELSE LineStart(k - 1) + Len(Text(lines[k - 1]))

\* the 0-based index of the first terminator character of line k
TermPos(k) == LineStart(k) + Len(Text(lines[k])) - Len(lines[k].term)

\* the number of lines among 1..k with flag '1'
RECURSIVE Rank(_)
Rank(k) == IF k = 0 THEN 0 ELSE Rank(k - 1) + (IF lines[k].flag = "1" THEN 1 ELSE 0)

\* the characters of a field before its first blank
RECURSIVE UpToBlank(_)
UpToBlank(f) ==
    IF f = <<>> \/ Head(f) = SP THEN <<>> ELSE <<Head(f)>> \o UpToBlank(Tail(f))

\* a code with a '.' after its 3rd character when it has more than 3
WithDot(c) ==
    IF Len(c) > 3 THEN SubSeq(c, 1, 3) \o <<".">> \o SubSeq(c, 4, Len(c)) ELSE c

\* a text without its trailing spaces
RECURSIVE RStrip(_)
RStrip(d) == IF d # <<>> /\ d[Len(d)] = SP THEN RStrip(PopBack(d)) ELSE d

NonBlank(d) == \E k \in 1..Len(d) : d[k] # SP

\* the record the claim expects of a line
Expected(l) ==
    [code |-> UpToBlank(l.code), dec_code |-> WithDot(UpToBlank(l.code)),
     desc |-> RStrip(l.desc)]

\* C5: a line of at least 77 columns ended by \n or \r\n, with flag '1' and a
\* description holding a non-space character (the lines before it being
\* terminated lines of at least 77 columns too), yields the record with
\* code = columns 6..13 up to the first blank, dec_code = code with '.' after
\* its 3rd character when longer than 3, desc = columns 77.. without trailing
\* spaces; it is in the returned collection.
C5_FieldExtraction ==
    \A k \in 1..Len(lines) :
        (WfPrefix(k) /\ lines[k].flag = "1" /\ NonBlank(lines[k].desc)) =>
            /\ (cpc = "loop" /\ ci > TermPos(k)) =>
                   (Len(codes) >= Rank(k) /\ codes[Rank(k)] = Expected(lines[k]))
            /\ cpc = "done" => \E n \in 1..Len(codes) : codes[n] = Expected(lines[k])

\* C5 witness: the line "A0010000", flag '1', "Foo  ", ended by \r\n, second in
\* the blob, has been scanned into {A0010000, A00.10000, Foo}
C5_Witness ==
    /\ cpc = "loop" /\ Len(lines) = 2 /\ ci > TermPos(2)
    /\ WfPrefix(2) /\ lines[1].flag = "1"
    /\ lines[2] = LineOf(FullCode, "1", Foo2, <<CR, LF>>, 0)
    /\ codes[2] = [code |-> FullCode,
                   dec_code |-> <<"A", "0", "0", ".", "1", "0", "0", "0", "0">>,
                   desc |-> <<"F", "o", "o">>]

\* C6: a well-formed terminated line whose flag is not '1' contributes no
\* record, whatever its code and description and whatever the flags of the
\* lines before it: no step inside the line appends to the collection, and
\* the step at its terminator leaves an empty record under construction.
C6_FlagFiltering ==
    [][\A k \in 1..Len(lines) :
        (/\ cpc = "loop" /\ WfPrefix(k) /\ lines[k].flag # "1"
         /\ ci >= LineStart(k) /\ ci < LineStart(k) + Len(Text(lines[k]))) =>
            /\ codes' = codes
            /\ ci = TermPos(k) => code' = NewCode
      ]_vars

\* C6 witness: a line with flag '0' after a line with flag '1' has been
\* scanned to its end and the collection holds the first line's record only
C6_Witness ==
    /\ cpc = "loop" /\ Len(lines) = 2 /\ WfPrefix(2)
    /\ lines[1].flag = "1" /\ lines[2].flag = "0"
    /\ ci > TermPos(2)
    /\ Len(codes) = 1

StrLeq(a, b) == a = b \/ StrLess(a, b)

\* C7: the collection parse_codes returns is in ascending order of code:
\* codes[k].code <= codes[k+1].code for all adjacent k, for every blob.
C7_Sorted ==
    cpc = "done" =>
        \A k \in 1..(Len(codes) - 1) : StrLeq(codes[k].code, codes[k + 1].code)

\* C7 witness: the blob holds B1 before A00 and the result holds A00 before B1
C7_Witness ==
    /\ cpc = "done" /\ Len(lines) = 2 /\ Len(codes) = 2
    /\ lines[1].code[1] = "B" /\ lines[2].code[1] = "A"
    /\ codes[1].code = <<"A", "0", "0">> /\ codes[2].code = <<"B", "1">>

\* C8: for every blob parse_codes runs to completion without failure, and
\* every character it reads is at a position no greater than the blob's
\* length.
C8_Totality == cpc # "failed" /\ ~oob /\ ~emptyback

-----------------------------------------------------------------------------
(* gen_go_file and gen_files: the generator and its four threads *)

\* the day number of the 0 date of the day index
DayZero == 7182

Digits == <<"0", "1", "2", "3", "4", "5", "6", "7", "8", "9">>

\* std::to_string of a non-negative number, one character per element
RECURSIVE to_string(_)
to_string(n) ==
    IF n < 10 THEN <<Digits[n + 1]>> ELSE to_string(n \div 10) \o <<Digits[(n % 10) + 1]>>

\* a number as two digits (strftime %d, %I, %M)
TwoDigits(n) == <<Digits[(n \div 10) + 1], Digits[(n % 10) + 1]>>

MonthAbbr ==
    <<"Jan", "Feb", "Mar", "Apr", "May", "Jun", "Jul", "Aug", "Sep", "Oct", "Nov", "Dec">>

\* string dj = to_string(days since epoch - 7182)
dj == to_string(now.days - DayZero)

\* strftime(part1, 15, "%d %b %Y   ", timestamp)
Part1 == TwoDigits(now.mday) \o <<" ", MonthAbbr[now.mon + 1], " ">>
         \o to_string(now.year) \o <<"   ">>

\* strftime(part2, 3, "%I", timestamp), without its leading zero
Part2 ==
    LET part2 == TwoDigits(IF now.hour % 12 = 0 THEN 12 ELSE now.hour % 12)
    IN  IF part2[1] = "0" THEN Tail(part2) ELSE part2

\* strftime(part3, 15, ":%M %p   Cache", timestamp)
Part3 == <<":">> \o TwoDigits(now.min)
         \o <<" ", IF now.hour < 12 THEN "AM" ELSE "PM", "   Cache">>

\* bit b (1, 2 or 4) of a bitmask
Bit(bitmask, b) == (bitmask \div b) % 2 = 1

\* the header block gen_go_file writes when bit 4 is set
Header(bitmask) ==
    <<"~Format=5.S~\n">> \o Part1 \o Part2 \o Part3 \o <<"\n^">>
    \o (IF ~Bit(bitmask, 1) THEN <<"NON">> ELSE <<>>)
    \o <<"DECGBL", "(\"Subscript 1\")\n">> \o dj
    \o <<"_PLACEHOLDER FOR YEAR ", year, "\n">>

\* the two lines gen_go_file writes for one record
CodeLines(it, bitmask) ==
    <<"^">> \o (IF ~Bit(bitmask, 1) THEN <<"NON">> ELSE <<>>)
    \o <<"DECGBL(\"Subscript 1\",\"", IF Bit(bitmask, 1) THEN it.dec_code ELSE it.code,
         "\")\n", it.desc, "\n">>

Footer == <<"\n\n">>

Threads == 1..4

\* mutant of Bitmask: the individual files are started without the trailer bit
BitmaskNoTrailer(t) == <<4, 5, 4, 3>>[t]

\* mutant of Bitmask: the two halves of the combined file swap their forms
BitmaskSwapped(t) == <<6, 7, 5, 2>>[t]

\* the bitmask thread t is started with
Bitmask(t) == <<6, 7, 4, 3>>[t]

\* mutant of Outp: the second half is rendered straight into comb
OutpShared(t) == <<"ndec", "dec", "comb", "comb">>[t]

\* the buffer thread t is started with
Outp(t) == <<"ndec", "dec", "comb", "comb2">>[t]

\* gen_go_file run from start to end on a buffer holding outp
RECURSIVE GoCodes(_, _, _)
GoCodes(outp, k, bitmask) ==
    IF k > Len(gcodes) THEN outp
    ELSE GoCodes(outp \o CodeLines(gcodes[k], bitmask), k + 1, bitmask)

gen_go_file(outp, bitmask) ==
    LET headed == IF Bit(bitmask, 4) THEN Header(bitmask) ELSE outp
        listed == GoCodes(headed, 1, bitmask)
    IN  IF Bit(bitmask, 2) THEN listed \o Footer ELSE listed

\* thread(gen_go_file, ...): t1..t4 are started in turn
Spawn ==
    /\ gpc.at = "spawn"
    /\ tpc' = [tpc EXCEPT ![gpc.n] = "header"]
    /\ gpc' = IF gpc.n = 4 THEN [at |-> "join", n |-> 1] ELSE [gpc EXCEPT !.n = @ + 1]
    /\ UNCHANGED <<gcodes, year, now, buf, tk, ended>>
    /\ UNCHANGED <<argvars, codevars, workvars>>

\* mutant of Joined: join returns without waiting
JoinedAtOnce(t) == TRUE

\* t.join() returns once thread t has ended
Joined(t) == tpc[t] = "done"

\* t1.join() .. t4.join()
Join ==
    /\ gpc.at = "join"
    /\ Joined(gpc.n)
    /\ gpc' = IF gpc.n = 4 THEN [at |-> "append", n |-> 0] ELSE [gpc EXCEPT !.n = @ + 1]
    /\ UNCHANGED <<gcodes, year, now, buf, tpc, tk, ended>>
    /\ UNCHANGED <<argvars, codevars, workvars>>

\* comb.append(move(*comb2)), shrink_to_fit, return
AppendComb ==
    /\ gpc.at = "append"
    /\ buf' = [buf EXCEPT !["comb"] = @ \o buf["comb2"]]
    /\ gpc' = [at |-> "done", n |-> 0]
    /\ UNCHANGED <<gcodes, year, now, tpc, tk, ended>>
    /\ UNCHANGED <<argvars, codevars, workvars>>

\* thread t: the header block of gen_go_file
GoHeader(t) ==
    /\ tpc[t] = "header"
    /\ buf' = IF Bit(Bitmask(t), 4)
              THEN [buf EXCEPT ![Outp(t)] = Header(Bitmask(t))]
              ELSE buf
    /\ tpc' = [tpc EXCEPT ![t] = "codes"]
    /\ UNCHANGED <<gcodes, year, now, gpc, tk, ended>>
    /\ UNCHANGED <<argvars, codevars, workvars>>

\* thread t: one iteration of the loop over the records, or its end
GoCode(t) ==
    /\ tpc[t] = "codes"
    /\ IF tk[t] <= Len(gcodes)
       THEN /\ buf' = [buf EXCEPT ![Outp(t)] = @ \o CodeLines(gcodes[tk[t]], Bitmask(t))]
            /\ tk' = [tk EXCEPT ![t] = @ + 1]
            /\ tpc' = tpc
       ELSE /\ tpc' = [tpc EXCEPT ![t] = "footer"]
            /\ UNCHANGED <<buf, tk>>
    /\ UNCHANGED <<gcodes, year, now, gpc, ended>>
    /\ UNCHANGED <<argvars, codevars, workvars>>

\* thread t: the closing blank lines, and the end of the thread
GoFooter(t) ==
    /\ tpc[t] = "footer"
    /\ buf' = IF Bit(Bitmask(t), 2)
              THEN [buf EXCEPT ![Outp(t)] = @ \o Footer]
              ELSE buf
    /\ tpc' = [tpc EXCEPT ![t] = "done"]
    /\ ended' = Append(ended, t)
    /\ UNCHANGED <<gcodes, year, now, gpc, tk>>
    /\ UNCHANGED <<argvars, codevars, workvars>>

-----------------------------------------------------------------------------
(* Inputs of the generator model *)

MaxRecords == 2

Records ==
    { [code |-> "A001", dec_code |-> "A00.1", desc |-> "Cholera"],
      [code |-> "B20", dec_code |-> "B20", desc |-> "HIV disease"] }

Clocks ==
    { [days |-> 20396, mday |-> 4, mon |-> 10, year |-> 2025, hour |-> 9, min |-> 5],
      [days |-> 20454, mday |-> 1, mon |-> 0, year |-> 2026, hour |-> 0, min |-> 30] }

\* what the caller's three buffers hold on entry
Stale == {<<>>, <<"old">>}

\* the state of gen_files when it is about to start its threads
InitGen ==
    /\ gcodes \in SeqsUpTo(Records, MaxRecords)
    /\ year = "2026"
    /\ now \in Clocks
    /\ \E old \in Stale :
        buf = [b \in {"ndec", "dec", "comb", "comb2"} |-> IF b = "comb2" THEN <<>> ELSE old]
    /\ gpc = [at |-> "spawn", n |-> 1]
    /\ tpc = [t \in Threads |-> "none"]
    /\ tk = [t \in Threads |-> 1]
    /\ ended = <<>>
    /\ ArgsIdle
    /\ CodesIdle
    /\ WorkIdle

NextGen ==
    \/ Spawn
    \/ Join
    \/ AppendComb
    \/ \E t \in Threads : GoHeader(t)
    \/ \E t \in Threads : GoCode(t)
    \/ \E t \in Threads : GoFooter(t)

SpecGen == InitGen /\ [][NextGen]_vars

-----------------------------------------------------------------------------
(* Claims on gen_files, checked under SpecGen *)

\* the rendering of the collection in one form, alone and from start to end
Rendering(decimal, header, trailer) ==
    gen_go_file(<<>>, (IF decimal THEN 1 ELSE 0) + (IF trailer THEN 2 ELSE 0)
                      + (IF header THEN 4 ELSE 0))

\* C1 (as claimed): after gen_files the combined buffer is the rendering
\* (decimal, header on, trailer off) immediately followed by the rendering
\* (non-decimal, header off, trailer on).
C1_CombinedClaimed ==
    gpc.at = "done" =>
        buf["comb"] = Rendering(TRUE, TRUE, FALSE) \o Rendering(FALSE, FALSE, TRUE)

\* C1 (amended): after gen_files the combined buffer is the rendering
\* (non-decimal, header on, trailer off) immediately followed by the
\* rendering (decimal, header off, trailer on), with nothing between them.
C1_Combined ==
    gpc.at = "done" =>
        buf["comb"] = Rendering(FALSE, TRUE, FALSE) \o Rendering(TRUE, FALSE, TRUE)

\* C1 witness: gen_files has returned for a collection of two records and a
\* caller's buffer that was not empty
C1_Witness ==
    /\ gpc.at = "done" /\ Len(gcodes) = 2 /\ gcodes[1] # gcodes[2]
    /\ buf["comb"] # <<>> /\ buf["comb"][1] # "old"

\* C9: for fixed inputs the three buffers gen_files returns are the same for
\* every interleaving of the four threads, and equal to the four renderings
\* run one after another.
C9_Deterministic ==
    gpc.at = "done" =>
        /\ buf["ndec"] = gen_go_file(<<>>, Bitmask(1))
        /\ buf["dec"] = gen_go_file(<<>>, Bitmask(2))
        /\ buf["comb"] = gen_go_file(<<>>, Bitmask(3)) \o gen_go_file(<<>>, Bitmask(4))

\* C9 witness: gen_files has returned three non-empty buffers after its
\* threads ended in the reverse of the order they were started in
C9_Witness ==
    /\ gpc.at = "done" /\ ended = <<4, 3, 2, 1>> /\ Len(gcodes) = 2
    /\ buf["ndec"] # buf["dec"] /\ Len(buf["comb"]) > Len(buf["dec"])

\* C10: the second half is appended to the combined buffer, and gen_files
\* returns, only after all four threads have ended; and a join is passed
\* only when its thread has ended.
C10_NoPartialOutput ==
    /\ gpc.at \in {"append", "done"} => \A t \in Threads : tpc[t] = "done"
    /\ gpc.at = "join" => \A t \in 1..(gpc.n - 1) : tpc[t] = "done"

\* C10 witness: gen_files waits in t1.join() while t2..t4 have ended and t1
\* is still in its loop
C10_Witness ==
    /\ gpc = [at |-> "join", n |-> 1]
    /\ tpc = <<"codes", "done", "done", "done">>

\* thread t takes a step of gen_go_file
Steps(t) == tpc[t] \in {"header", "codes", "footer"} /\ (tpc'[t] # tpc[t] \/ tk'[t] # tk[t])

\* C11: ownership partitioning: a buffer changes while threads run only in a
\* step of the one thread it was given to, no two threads are given the same
\* buffer, and no step of a thread changes the record collection, the year
\* string, the timestamp or the day index; the caller writes a buffer only
\* when every thread has ended.
C11_Ownership ==
    [][/\ \A b \in DOMAIN buf : buf'[b] # buf[b] =>
            \/ gpc.at = "append" /\ \A t \in Threads : tpc[t] = "done"
            \/ \E t \in Threads :
                /\ Steps(t) /\ Outp(t) = b
                /\ \A u \in Threads \ {t} : Outp(u) # b
       /\ (\E t \in Threads : Steps(t)) =>
            gcodes' = gcodes /\ year' = year /\ now' = now /\ dj' = dj
      ]_vars

\* C11 witness: the four threads are all inside their loops, each having
\* written one record into its own buffer
C11_Witness ==
    /\ \A t \in Threads : tpc[t] = "codes" /\ tk[t] = 2
    /\ Len(gcodes) = 2
    /\ buf["ndec"] # buf["dec"] /\ buf["comb"] = buf["ndec"]
    /\ buf["comb2"] = CodeLines(gcodes[1], Bitmask(4))

-----------------------------------------------------------------------------
(* parse on command lines of bare words: the quote stripping *)

Q == "\""

\* the bare words: plain, quoted, quoted at one end, doubly quoted, a lone
\* quote, two quotes, a quote inside, the empty word
BareWords ==
    { <<"x">>, <<Q, "y", Q>>, <<Q, "y">>, <<"y", Q>>, <<Q, Q, "y", Q, Q>>,
      <<Q>>, <<Q, Q>>, <<"y", Q, "z">>, E }

BareVectors == {<<Prog>> \o q : q \in SeqsUpTo(BareWords, MaxArgs)}

\* a parser built by the constructor, at the first loop test of parse
InitBare ==
    /\ \E tokens \in CtorLists :
        LET r == CtorPairs(tokens)
        IN  /\ keys_trans = r.keys_trans
            /\ values = r.values
            /\ keys_found = r.keys_found
            /\ key_order = r.key_order
            /\ short_keys = r.short_keys
            /\ long_keys = r.long_keys
            /\ regs = PairsOf(tokens)
            /\ hvreg = [key \in DOMAIN r.keys_found |-> [any |-> TRUE, last |-> TRUE, both |-> TRUE]]
            /\ ctor = Built(tokens)
    /\ argv \in BareVectors
    /\ words = Len(argv) - 1
    /\ ppc = "scan"
    /\ pi = 1
    /\ extras = <<>>
    /\ adds = 0
    /\ call = NoCall
    /\ CodesIdle
    /\ GenIdle
    /\ WorkIdle

NextBare == ScanBare \/ ParseBackfill

SpecBare == InitBare /\ [][NextBare]_vars

\* the word w without its first character when that is a double quote, and
\* without its last character when what is left ends with a double quote
Unquoted(w) ==
    LET lead == Len(w) > 0 /\ w[1] = Q
        from == IF lead THEN 2 ELSE 1
        trail == Len(w) >= from /\ w[Len(w)] = Q
        to == IF trail THEN Len(w) - 1 ELSE Len(w)
    IN  SubSeq(w, from, to)

\* C12: an argument that does not start with '-' or '/' is appended to the
\* extras with one leading double quote removed if present, then one trailing
\* double quote removed if present, and is otherwise unchanged; only one quote
\* is removed at each end, and nothing else of the parser changes.
C12_QuoteStripping ==
    [][(ppc = "scan" /\ pi < argc /\ ~IsOption(Argv(pi))) =>
        /\ extras' = Append(extras, Unquoted(Argv(pi)))
        /\ pi' = pi + 1
        /\ UNCHANGED <<values, keys_found, keys_trans, key_order>>
      ]_vars

\* C12 witness: the words ""y"", "y and a lone quote have been scanned into
\* the extras "y", y and the empty word
C12_Witness ==
    /\ ppc = "scan" /\ pi = 4
    /\ argv = <<Prog, <<Q, Q, "y", Q, Q>>, <<Q, "y">>, <<Q>> >>
    /\ extras = << <<Q, "y", Q>>, <<"y">>, E >>

-----------------------------------------------------------------------------
(* Claims on registration, checked under SpecArgs *)

C14_AddTokenResult ==
    [][adds' = adds + 1 =>
        /\ call'.ret \in BOOLEAN
        /\ (call'.ret = FALSE) <=> (call'.short_token = E /\ call'.long_token = E)
        /\ call'.ret = FALSE =>
             UNCHANGED <<keys_trans, values, keys_found, key_order, short_keys, long_keys>>
      ]_vars

\* C14 witness: add_token("", "") has just returned false on a parser that
\* has keys and has parsed a command line
C14_Witness ==
    /\ call # NoCall /\ call.short_token = E /\ call.long_token = E /\ call.ret = FALSE
    /\ key_order = <<A>> /\ words = 1 /\ found(L)

-----------------------------------------------------------------------------
(* Bulk construction from two key lists *)

MaxKeys == 2

ShortLists == SeqsUpTo({E, A, B}, MaxKeys)
LongLists == SeqsUpTo({E, L}, MaxKeys)

\* ArgParser(tokens_short, tokens_long) is about to be called
InitCtor ==
    /\ \E tokens_short \in ShortLists, tokens_long \in LongLists :
        ctor = [tokens_short |-> tokens_short, tokens_long |-> tokens_long, at |-> "call"]
    /\ keys_trans = Empty /\ values = Empty /\ keys_found = Empty
    /\ key_order = <<>> /\ short_keys = {} /\ long_keys = {}
    /\ ppc = "idle" /\ argv = <<Prog>> /\ pi = 1 /\ extras = <<>>
    /\ adds = 0 /\ words = 0 /\ regs = <<>> /\ hvreg = Empty /\ call = NoCall
    /\ CodesIdle
    /\ GenIdle
    /\ WorkIdle

\* ArgParser(const vector<string> &tokens_short, const vector<string> &tokens_long)
Construct ==
    /\ ctor.at = "call"
    /\ LET res == init(ctor.tokens_short, ctor.tokens_long)
           r == res.reg
       IN  /\ ctor' = [ctor EXCEPT !.at = IF res.throws THEN "invalid_argument" ELSE "built"]
           /\ keys_trans' = r.keys_trans
           /\ values' = r.values
           /\ keys_found' = r.keys_found
           /\ key_order' = r.key_order
           /\ short_keys' = r.short_keys
           /\ long_keys' = r.long_keys
           /\ hvreg' = [key \in DOMAIN r.keys_found |-> [any |-> TRUE, last |-> TRUE, both |-> TRUE]]
           /\ regs' = IF res.throws THEN <<>>
                       ELSE PairsOf([k \in 1..Len(ctor.tokens_short) |->
                                        <<ctor.tokens_short[k], ctor.tokens_long[k]>>])
    /\ UNCHANGED <<ppc, argv, pi, extras, adds, words, call>>
    /\ UNCHANGED <<codevars, genvars, workvars>>

NextCtor == Construct

SpecCtor == InitCtor /\ [][NextCtor]_vars

\* the canonical keys of the pairs of two parallel lists that have a
\* non-empty key, in list order, from position k on
RECURSIVE KeyedFrom(_, _, _)
KeyedFrom(ts, tl, k) ==
    IF k > Len(ts) THEN <<>>
    ELSE (IF ts[k] # E THEN <<ts[k]>> ELSE IF tl[k] # E THEN <<tl[k]>> ELSE <<>>)
         \o KeyedFrom(ts, tl, k + 1)

\* C15: construction from a short-key list and a long-key list fails with
\* invalid_argument if and only if the lists differ in length; when the
\* lengths are equal every pair with a non-empty key is registered as
\* value-bearing and positional, in list order (and not yet found).
C15_BulkConstruction ==
    ctor.at # "call" =>
        /\ (ctor.at = "invalid_argument") <=> (Len(ctor.tokens_short) # Len(ctor.tokens_long))
        /\ ctor.at = "built" =>
            LET keyed == KeyedFrom(ctor.tokens_short, ctor.tokens_long, 1)
                keys == {keyed[k] : k \in 1..Len(keyed)}
            IN  /\ key_order = keyed
                /\ DOMAIN values = keys
                /\ DOMAIN keys_found = keys
                /\ \A key \in keys : values[key] = E /\ ~keys_found[key]

\* C15 witness: the lists (a, "") and (l, l) have built a parser whose
\* positional keys are a, then l
C15_Witness ==
    /\ ctor = [tokens_short |-> <<A, E>>, tokens_long |-> <<L, L>>, at |-> "built"]
    /\ key_order = <<A, L>>
    /\ DOMAIN values = {A, L}

-----------------------------------------------------------------------------
(* Claims on the queries, checked under SpecArgs *)

Z == <<"z">>

\* the strings the queries are asked about: registered short and long
\* spellings, the empty string, an unregistered word, a raw option word
QueryTokens == {E, A, B, L, Z, <<"-", "a">>}

\* C16: for every token string, after any registrations and parse calls,
\* found(token) and get_value(token) return without error, and
\* get_value(token) is the empty string unless the token's canonical key is
\* both found and value-bearing (every value-bearing key has a found flag).
C16_QueriesTotal ==
    /\ DOMAIN values \subseteq DOMAIN keys_found
    /\ \A token \in QueryTokens :
        LET key == IF token \in DOMAIN keys_trans THEN keys_trans[token] ELSE token
        IN  /\ found(token) \in BOOLEAN
            /\ get_value(token) # "throw"
            /\ get_value(token) # E =>
                 /\ key \in DOMAIN keys_found /\ keys_found[key]
                 /\ key \in DOMAIN values /\ get_value(token) = values[key]

\* C16 witness: after "-a x /b" on a parser with the pair (a, l) and the
\* valueless key b: l reports x, b is found but reports the empty string,
\* z is not found
C16_Witness ==
    /\ ppc = "idle" /\ words = 3
    /\ found(L) /\ get_value(L) = <<"x">>
    /\ found(B) /\ B \notin DOMAIN values /\ get_value(B) = E
    /\ ~found(Z) /\ get_value(Z) = E

-----------------------------------------------------------------------------
(* Claims on the order and the line structure of parse_codes, under SpecCodes *)

\* the records of v whose code is c, in the order they have in v
RECURSIVE SameCode(_, _)
SameCode(v, c) ==
    IF v = <<>> THEN <<>>
    ELSE (IF Head(v).code = c THEN <<Head(v)>> ELSE <<>>) \o SameCode(Tail(v), c)

\* C17: stable ordering: in the collection parse_codes returns, the records
\* with equal code are in the relative order their lines had in the blob
\* (the order the scan appended them in).
C17_Stable ==
    [][(cpc = "loop" /\ cpc' = "done") =>
        \A k \in 1..Len(codes) :
            SameCode(codes', codes[k].code) = SameCode(codes, codes[k].code)
      ]_vars

-----------------------------------------------------------------------------
(* Claims on the individual outputs of gen_files, under SpecGen *)

\* the "NON" infix of the non-decimal form
Infix(decimal) == IF decimal THEN <<>> ELSE <<"NON">>

\* the key line and the description line of the records k.. of the
\* collection, in collection order
RECURSIVE Blocks(_, _)
Blocks(decimal, k) ==
    IF k > Len(gcodes) THEN <<>>
    ELSE <<"^">> \o Infix(decimal)
         \o <<"DECGBL(\"Subscript 1\",\"",
              IF decimal THEN gcodes[k].dec_code ELSE gcodes[k].code, "\")\n">>
         \o <<gcodes[k].desc, "\n">>
         \o Blocks(decimal, k + 1)

\* the header block of one form
HeaderBlock(decimal) ==
    <<"~Format=5.S~\n">> \o Part1 \o Part2 \o Part3 \o <<"\n^">> \o Infix(decimal)
    \o <<"DECGBL", "(\"Subscript 1\")\n">> \o dj \o <<"_PLACEHOLDER FOR YEAR ", year, "\n">>

\* C18: the non-decimal buffer, and likewise the decimal buffer, is exactly
\* the header block, then for each record in collection order one key line
\* with its code (plain or decimal; "NON" in header and key lines exactly in
\* the non-decimal buffer) and one line with its description, then two blank
\* lines; for an empty collection the header block and the two blank lines.
C18_IndividualStructure ==
    gpc.at = "done" =>
        /\ buf["ndec"] = HeaderBlock(FALSE) \o Blocks(FALSE, 1) \o <<"\n\n">>
        /\ buf["dec"] = HeaderBlock(TRUE) \o Blocks(TRUE, 1) \o <<"\n\n">>
        /\ gcodes = <<>> => buf["dec"] = HeaderBlock(TRUE) \o <<"\n\n">>

\* C18 witness: gen_files has returned for the collection (A001, B20): the
\* decimal buffer carries A00.1 then B20 after its header, the non-decimal
\* buffer A001 then B20 with the infix
C18_Witness ==
    /\ gpc.at = "done" /\ Len(gcodes) = 2
    /\ gcodes[1].code = "A001" /\ gcodes[2].code = "B20"
    /\ LET h == Len(HeaderBlock(TRUE)) IN
       /\ buf["dec"][h + 3] = "A00.1" /\ buf["dec"][h + 9] = "B20"
       /\ Len(buf["dec"]) = h + 13
    /\ LET h == Len(HeaderBlock(FALSE)) IN
       /\ buf["ndec"][h + 2] = "NON" /\ buf["ndec"][h + 4] = "A001"
       /\ buf["ndec"][Len(buf["ndec"])] = "\n\n"

\* line k ends before the flag column: its terminator is at column 14 or before
EndsBeforeFlag(k) == lines[k].cut > 0 /\ lines[k].cut <= CodeEndCol

\* the scan is inside line k (terminator included)
ScanIn(k) == cpc = "loop" /\ ci >= LineStart(k) /\ ci < LineStart(k) + Len(Text(lines[k]))

\* C19: a physical line that ends before reaching the flag column (column 14)
\* contributes no record, whatever the flags of the earlier lines (which are
\* terminated lines of at least 77 columns): no step of the scan inside the
\* line appends to the collection.
C19_ShortLineNoRecord ==
    [][\A k \in 1..Len(lines) :
        (WfPrefix(k - 1) /\ EndsBeforeFlag(k) /\ ScanIn(k)) => codes' = codes
      ]_vars

\* line k is cut short of column 77 and terminated
Truncated(k) == lines[k].cut > 0 /\ lines[k].cut < DescCol /\ lines[k].term # <<>>

\* C20: every line terminator resets column tracking: in a blob of
\* well-formed lines and terminated lines truncated before column 77, every
\* well-formed line with flag '1' and a non-blank description yields the
\* record it yields when the truncated lines are absent, and the truncated
\* lines add at most one record each.
C20_TerminatorResets ==
    (/\ cpc = "done"
     /\ \A k \in 1..Len(lines) : WellFormed(lines[k]) \/ Truncated(k)) =>
        /\ \A k \in 1..Len(lines) :
            (WellFormed(lines[k]) /\ lines[k].flag = "1" /\ NonBlank(lines[k].desc)) =>
                \E n \in 1..Len(codes) : codes[n] = Expected(lines[k])
        /\ Len(codes) <= Len(lines)

\* the description region of line k is empty or holds spaces only
BlankDesc(k) == ~NonBlank(lines[k].desc)

\* C21: for a terminated line with flag '1' whose description region is empty
\* or all spaces (the lines before it being terminated lines of at least 77
\* columns), the stripping of trailing spaces stops when the description is
\* empty: back() is never called on an empty description, the parse does not
\* fail, and the line yields a record with an empty description.
C21_BlankDescription ==
    \A k \in 1..Len(lines) :
        (/\ WfPrefix(k) /\ lines[k].flag = "1" /\ BlankDesc(k)
         /\ cpc \in {"loop", "failed"} /\ ci >= TermPos(k)) =>
            /\ cpc # "failed"
            /\ ~emptyback
            /\ ci > TermPos(k) =>
                 (Len(codes) >= Rank(k) /\ codes[Rank(k)] = Expected(lines[k]))

-----------------------------------------------------------------------------
(* parse on command lines of option words, on parsers built by the          *)
(* constructor and add_token                                                 *)

MaxRegs == 1
MaxOpts == 2

\* the option words: short, long and slash spellings of a, l and b, a word
\* that matches no key and ends with a quote, and a bare word
OptTokens ==
    { <<"-", "a">>, <<"-", "-", "a">>, <<"-", "l">>, <<"/", "l">>, <<"-", "-", "l">>,
      <<"/", "b">>, <<"-", "z", "\"">>, <<"x">> }

OptVectors == {<<Prog>> \o q : q \in SeqsUpTo(OptTokens, MaxOpts)}

\* a parser with its history: after the constructor
Constructed(tokens) ==
    LET r == CtorPairs(tokens)
    IN  [reg |-> r, regs |-> PairsOf(tokens),
         hvreg |-> [key \in DOMAIN r.keys_found |-> [any |-> TRUE, last |-> TRUE, both |-> TRUE]],
         ctor |-> Built(tokens), adds |-> 0]

\* ... after one more add_token call
Added(ps, short_token, long_token, has_value, positional) ==
    [ps EXCEPT
        !.reg = add_token(ps.reg, short_token, long_token, has_value, positional).reg,
        !.regs = IF short_token # E /\ long_token # E
                 THEN Append(ps.regs, <<short_token, long_token>>) ELSE ps.regs,
        !.hvreg = IF short_token = E /\ long_token = E THEN ps.hvreg
                  ELSE Logged(ps.hvreg, Canonical(short_token, long_token), has_value, positional),
        !.adds = ps.adds + 1]

\* the parsers that the constructor and at most n add_token calls build
RECURSIVE Parsers(_)
Parsers(n) ==
    IF n = 0 THEN {Constructed(tokens) : tokens \in CtorLists}
    ELSE LET fewer == Parsers(n - 1)
         IN  fewer \cup
             { Added(ps, short_token, long_token, has_value, positional) :
               ps \in {x \in fewer : x.adds = n - 1},
               short_token \in AddShorts, long_token \in AddLongs,
               has_value \in BOOLEAN, positional \in BOOLEAN }

\* such a parser at the first loop test of parse
InitScan ==
    /\ \E ps \in Parsers(MaxRegs) :
        /\ keys_trans = ps.reg.keys_trans
        /\ values = ps.reg.values
        /\ keys_found = ps.reg.keys_found
        /\ key_order = ps.reg.key_order
        /\ short_keys = ps.reg.short_keys
        /\ long_keys = ps.reg.long_keys
        /\ regs = ps.regs
        /\ hvreg = ps.hvreg
        /\ ctor = ps.ctor
        /\ adds = ps.adds
    /\ argv \in OptVectors
    /\ words = Len(argv) - 1
    /\ ppc = "scan"
    /\ pi = 1
    /\ extras = <<>>
    /\ call = NoCall
    /\ CodesIdle
    /\ GenIdle
    /\ WorkIdle

NextScan == ScanOption \/ ScanBare \/ ParseBackfill

SpecScan == InitScan /\ [][NextScan]_vars

\* C22: an option word that resolves to no registered key never makes parse
\* fail: it is appended unmodified to the extras, after the words queued
\* before it, and nothing else changes; at the backfill the extras are handed
\* out from the front, so the word goes to the positional key a bare argument
\* at its place would go to.
C22_UnknownOption ==
    [][/\ (/\ ppc = "scan" /\ pi < argc /\ IsOption(Argv(pi))
           /\ ResolveKey(Argv(pi)) \notin DOMAIN keys_found) =>
            /\ extras' = Append(extras, Argv(pi))
            /\ pi' = pi + 1 /\ ppc' = "scan"
            /\ UNCHANGED <<values, keys_found, key_order, keys_trans>>
       /\ (ppc = "scan" /\ pi >= argc) =>
            LET P == Pending(1, {})
            IN  /\ ppc' = "idle"
                /\ \A j \in 1..Min(Len(P), Len(extras)) : values'[P[j]] = extras[j]
      ]_vars

\* C22 witness: "x -z"" has been parsed by a parser with the positional keys
\* a, b, l: a holds x and b holds the unmatched word with its quote
C22_Witness ==
    /\ ppc = "idle" /\ words = 2 /\ key_order = <<A, B, L>>
    /\ get_value(A) = <<"x">> /\ get_value(B) = <<"-", "z", "\"">>
    /\ ~found(L)

\* the word made of a prefix and a key
Word(prefix, key) == prefix \o key

\* the scan is at the option word tok
AtWord(tok) == ppc = "scan" /\ pi < argc /\ Argv(pi) = tok

\* the step queues the word and marks nothing
GoesToExtras(tok) == extras' = Append(extras, tok) /\ keys_found' = keys_found

Keys == {A, B, L}

\* C23 (as claimed): "--s" for a key registered only as short key s, and "-l"
\* or "/l" for a long key l, mark no key found and go to extras, while "-s"
\* for a registered short key s marks the slot of s found.
C23_LookupClaimed ==
    [][\A k \in Keys :
        /\ (AtWord(Word(<<"-", "-">>, k)) /\ k \in short_keys /\ k \notin long_keys) =>
              GoesToExtras(Word(<<"-", "-">>, k))
        /\ \A prefix \in {<<"-">>, <<"/">>} :
              (AtWord(Word(prefix, k)) /\ k \in long_keys) =>
                 GoesToExtras(Word(prefix, k))
        /\ (AtWord(Word(<<"-">>, k)) /\ k \in short_keys) => keys_found'[k]
      ]_vars

\* the key the two-step lookup gives: the text after "--" when it is a long
\* key, the text after a single prefix when it is a short key, else the word
Looked(tok) ==
    LET double == Len(tok) >= 2 /\ tok[1] = "-" /\ tok[2] = "-"
        text == SubSeq(tok, IF double THEN 3 ELSE 2, Len(tok))
    IN  IF text \in (IF double THEN long_keys ELSE short_keys) THEN text ELSE tok

\* C23 (amended): the key looked up is the text after "--" when that is a
\* registered long key, the text after a single '-' or '/' when that is a
\* registered short key, and the whole word otherwise; the slot marked is
\* that key's, or its alias target's when the key is an aliased long key.
\* So "--s" for a key registered only as short key goes to extras; "-l" and
\* "/l" go to extras when l is a long key that is not also a short key; "-s"
\* marks the slot of s when s is a short key that is not also an aliased
\* long key, and the slot of its alias target when it is.
C23_Lookup ==
    [][/\ (ppc = "scan" /\ pi < argc /\ IsOption(Argv(pi))) =>
            LET k == Looked(Argv(pi))
                key == IF k \in DOMAIN keys_trans THEN keys_trans[k] ELSE k
            IN  IF key \in DOMAIN keys_found
                THEN keys_found'[key] /\ extras' = extras
                ELSE GoesToExtras(Argv(pi))
       /\ \A k \in Keys :
            /\ (AtWord(Word(<<"-", "-">>, k)) /\ k \in short_keys /\ k \notin long_keys) =>
                  GoesToExtras(Word(<<"-", "-">>, k))
            /\ \A prefix \in {<<"-">>, <<"/">>} :
                  (AtWord(Word(prefix, k)) /\ k \in long_keys /\ k \notin short_keys) =>
                     GoesToExtras(Word(prefix, k))
            /\ (AtWord(Word(<<"-">>, k)) /\ k \in short_keys) =>
                  IF k \in DOMAIN keys_trans
                  THEN keys_found'[keys_trans[k]]
                  ELSE keys_found'[k]
      ]_vars

\* C23 witness: on a parser with the pair (a, l) the words "--a" and "/l"
\* have gone to extras and no key is found
C23_Witness ==
    /\ ppc = "scan" /\ pi = 3
    /\ argv = <<Prog, <<"-", "-", "a">>, <<"/", "l">> >>
    /\ short_keys = {A} /\ long_keys = {L} /\ keys_trans[L] = A
    /\ extras = << <<"-", "-", "a">>, <<"/", "l">> >>
    /\ ~keys_found[A]

\* C24: a key none of whose registrations was value-bearing (so a key
\* registered once through add_token with hasValue = false), when matched by
\* an option word, is marked found without consuming the following argument,
\* which is scanned next as a word of its own; and a key receives a value
\* through the backfill only if a registration of it had both hasValue = true
\* and positional = true.
C24_ValuelessAndPositional ==
    [][/\ (ppc = "scan" /\ pi < argc /\ IsOption(Argv(pi))) =>
            LET key == ResolveKey(Argv(pi))
            IN  (key \in DOMAIN hvreg /\ ~hvreg[key].any) =>
                    /\ keys_found'[key]
                    /\ pi' = pi + 1
                    /\ values' = values /\ extras' = extras
       /\ (ppc = "scan" /\ pi >= argc) =>
            \A key \in DOMAIN keys_found' :
                ((keys_found'[key] /\ ~keys_found[key])
                 \/ (key \in DOMAIN values /\ values'[key] # values[key])) =>
                    hvreg[key].both
      ]_vars

\* C24 witness: b was registered once, through add_token with hasValue =
\* false, on a parser with the pair (a, l); "/b x" has marked b found and the
\* word x, scanned on its own, has been backfilled into a
C24_Witness ==
    /\ ppc = "idle" /\ words = 2 /\ adds = 1
    /\ ctor = Built(<< <<A, L>> >>)
    /\ B \in DOMAIN hvreg
    /\ hvreg[B] = [any |-> FALSE, last |-> FALSE, both |-> FALSE]
    /\ found(B) /\ B \notin DOMAIN values
    /\ get_value(A) = <<"x">>

-----------------------------------------------------------------------------
(* Claims on the registry over sequences of calls, checked under SpecArgs *)

\* C25: after construction and after any sequence of add_token and parse
\* calls, every key in key_order is a key of both values and keys_found, so
\* keys_found.at(key) in the backfill loop never fails.
C25_PositionalKeysHaveSlots ==
    \A k \in 1..Len(key_order) :
        key_order[k] \in DOMAIN values /\ key_order[k] \in DOMAIN keys_found

\* C25 witness: b was added by add_token after the pair (a, l), and the
\* backfill of "x x" has walked key_order = (a, b) and filled both
C25_Witness ==
    /\ ppc = "idle" /\ adds = 1 /\ words = 2
    /\ key_order = <<A, B>>
    /\ keys_found[A] /\ keys_found[B]
    /\ values[A] = <<"x">> /\ values[B] = <<"x">>

-----------------------------------------------------------------------------
(* Claims on what parse_codes keeps, checked under SpecCodes *)

\* the last line has flag '1', at least 77 columns and no terminator, and the
\* lines before it are terminated lines of at least 77 columns
LastUnterminated ==
    /\ lines # <<>>
    /\ lines[Len(lines)].term = <<>> /\ lines[Len(lines)].cut = 0
    /\ lines[Len(lines)].flag = "1"
    /\ WfPrefix(Len(lines) - 1)

\* C26: a record is appended only at a line terminator: when the last line of
\* the blob has flag '1' but no \n or \r after it, every append of the scan
\* happens at the terminator of an earlier line, and the collection returned
\* holds one record for each flagged terminated line before it and none for
\* the last line.
C26_AppendAtTerminator ==
    [][LastUnterminated =>
        /\ (cpc = "loop" /\ cpc' = "loop" /\ codes' # codes) =>
              \E k \in 1..(Len(lines) - 1) :
                  /\ ci = TermPos(k)
                  /\ codes' = Append(codes, codes'[Len(codes')])
        /\ (cpc = "loop" /\ cpc' = "done") =>
              /\ Len(codes') = Rank(Len(lines) - 1)
              /\ code.code = UpToBlank(lines[Len(lines)].code)
      ]_vars

\* C26 witness: parse_codes has returned the record of the first line only;
\* the second line, flag '1' and unterminated, is still in the record under
\* construction
C26_Witness ==
    /\ cpc = "done" /\ Len(lines) = 2 /\ LastUnterminated
    /\ lines[1].flag = "1" /\ NonBlank(lines[1].desc)
    /\ codes = <<Expected(lines[1])>>
    /\ code = [code |-> FullCode,
               dec_code |-> <<"A", "0", "0", ".", "1", "0", "0", "0", "0">>,
               desc |-> Foo2]

\* the number of places of v that hold x
Count(v, x) == Cardinality({k \in 1..Len(v) : v[k] = x})

\* the flagged lines that yield the same record as line k
Twins(k) == {j \in 1..Len(lines) : lines[j].flag = "1" /\ Expected(lines[j]) = Expected(lines[k])}

\* C27: parse_codes neither merges nor drops qualifying lines: for a blob
\* made only of terminated lines of at least 77 columns, the collection
\* returned has as many records as there are lines with flag '1', each such
\* line has its own record even when codes are equal, and the final sort only
\* permutes the records appended during the scan.
C27_NoMergeNoDrop ==
    [][(cpc = "loop" /\ cpc' = "done" /\ WfPrefix(Len(lines))) =>
        /\ Len(codes') = Rank(Len(lines))
        /\ \A k \in 1..Len(lines) :
              lines[k].flag = "1" => Count(codes', Expected(lines[k])) = Cardinality(Twins(k))
        /\ Len(codes') = Len(codes)
        /\ \A n \in 1..Len(codes) : Count(codes', codes[n]) = Count(codes, codes[n])
      ]_vars

\* C27 witness: two terminated lines with the same code A0010000, flag '1'
\* and the descriptions "Foo" and "F o" have given two records
C27_Witness ==
    /\ cpc = "done" /\ Len(lines) = 2 /\ WfPrefix(2)
    /\ lines[1].code = FullCode /\ lines[2].code = FullCode
    /\ Len(codes) = 2
    /\ codes[1].code = FullCode /\ codes[2].code = FullCode
    /\ {codes[1].desc, codes[2].desc} = {<<"F", "o", "o">>, F_o}

\* C28: found flags are monotone: in every step of any sequence of parse and
\* add_token calls a key that is found stays found, and its stored value
\* changes only in the step where an occurrence of its own flag takes the
\* next argument; neither a later parse call nor a re-registration resets
\* what an earlier parse stored.
C28_FoundMonotone ==
    [][\A key \in DOMAIN keys_found :
        keys_found[key] =>
            /\ key \in DOMAIN keys_found' /\ keys_found'[key]
            /\ key \in DOMAIN values =>
                 /\ key \in DOMAIN values'
                 /\ values'[key] # values[key] =>
                      /\ ppc = "scan" /\ pi + 1 < argc /\ IsOption(Argv(pi))
                      /\ ResolveKey(Argv(pi)) = key
                      /\ values'[key] = Argv(pi + 1)
      ]_vars

\* C28 witness: "-a x" was parsed, and then add_token has registered a again,
\* without a value: a is still found and still holds x
C28_Witness ==
    /\ ppc = "idle" /\ words = 2
    /\ call # NoCall /\ call.short_token = A /\ call.ret
    /\ hvreg[A].any /\ ~hvreg[A].last
    /\ keys_found[A] /\ values[A] = <<"x">>

-----------------------------------------------------------------------------
(* work and the acquisition chain below it (ArgParser.cpp 893-1134).

   Every function of the chain first tests the ProgramState field it is to
   fill and calls the function before it only when that field is empty, then
   runs its own body.  The bodies talk to the network, to libzippp and to the
   disk; the model keeps of a string only whether it is empty, and takes what
   the outside world answers (the CURLcode, whether the page holds the link,
   the bytes received, whether the archive holds the file) as an input of
   the step. *)

\* a string main loaded from the command line, and one a stage obtained
Supplied == <<"s">>
Obtained == <<"o">>

\* std::string::empty, as the guards of the chain use it
empty_always(str) == TRUE

empty(str) == str = E

OutputCodes == {"ok", "easyhandle_init", "cms_get_failed", "icd10_get_failed",
                "zip_get_failed", "icd10_find_failed", "zip_find_failed",
                "extract_file_failed"}

CURLcodes == {"CURLE_OK", "CURLE_COULDNT_CONNECT"}

\* t1, t2, t3 of work and the buffer each one compresses
WorkThreads == {"t1", "t2", "t3"}

BufferOf(t) == CASE t = "t1" -> "ndec_codes"
                 [] t = "t2" -> "dec_codes"
                 [] t = "t3" -> "comb_codes"

OutputBuffers == {"dec_codes", "ndec_codes", "comb_codes"}

\* the body that runs first when a function of the chain is called: its own,
\* or, when the field it needs is empty, whatever the function before it runs
EnterGetTabOrderZipLink(s) ==
    IF empty(s.icd10_url) THEN "get_newest_icd10_link" ELSE "get_tab_order_zip_link"

EnterGetZipFile(s) ==
    IF empty(s.zip_url) THEN EnterGetTabOrderZipLink(s) ELSE "get_zip_file"

EnterGetCodesFile(s) ==
    IF empty(s.zip_file) THEN EnterGetZipFile(s) ELSE "get_codes_file"

EnterGenerateGoFiles(s) ==
    IF empty(s.order_file) THEN EnterGetCodesFile(s) ELSE "generate_go_files"

EnterWork(s) ==
    IF empty(s.dec_codes) \/ empty(s.ndec_codes) \/ empty(s.comb_codes)
    THEN EnterGenerateGoFiles(s)
    ELSE "compress_data"

\* a body sets state.outp and returns false; every caller up to work returns
\* false at once ("if (!callee(state)) return false;")
Fails(stage, outp) ==
    /\ state' = [state EXCEPT !.outp = outp]
    /\ ran' = Append(ran, [stage |-> stage, ok |-> FALSE])
    /\ wpc' = "returned"
    /\ wret' = FALSE

\* a body returns true: its caller goes on with its own body
Succeeds(stage, next) ==
    /\ ran' = Append(ran, [stage |-> stage, ok |-> TRUE])
    /\ wpc' = next
    /\ wret' = wret

\* work is called: the guards decide where the chain starts
WorkCall ==
    /\ wpc = "work"
    /\ wpc' = EnterWork(state)
    /\ UNCHANGED <<state, wret, ran, wthreads, zips>>
    /\ UNCHANGED <<argvars, codevars, genvars>>

GetNewestIcd10Link ==
    /\ wpc = "get_newest_icd10_link"
    /\ \E res \in CURLcodes, href \in {E, Obtained} :
         IF res # "CURLE_OK"
         THEN Fails("get_newest_icd10_link", "cms_get_failed")
         ELSE LET url == IF href # E THEN href ELSE state.icd10_url
              IN  IF empty(url)
                  THEN Fails("get_newest_icd10_link", "icd10_find_failed")
                  ELSE /\ state' = [state EXCEPT !.icd10_url = url]
                       /\ Succeeds("get_newest_icd10_link", "get_tab_order_zip_link")
    /\ UNCHANGED <<wthreads, zips>>
    /\ UNCHANGED <<argvars, codevars, genvars>>

GetTabOrderZipLink ==
    /\ wpc = "get_tab_order_zip_link"
    /\ \E res \in CURLcodes, link \in {E, Obtained} :
         IF res # "CURLE_OK"
         THEN Fails("get_tab_order_zip_link", "icd10_get_failed")
         ELSE LET url == IF link # E THEN link ELSE state.zip_url
              IN  IF empty(url)
                  THEN Fails("get_tab_order_zip_link", "zip_get_failed")
                  ELSE /\ state' = [state EXCEPT !.zip_url = url]
                       /\ Succeeds("get_tab_order_zip_link", "get_zip_file")
    /\ UNCHANGED <<wthreads, zips>>
    /\ UNCHANGED <<argvars, codevars, genvars>>

\* the bytes received are appended to state.zip_file, also when the transfer
\* fails half way
GetZipFile ==
    /\ wpc = "get_zip_file"
    /\ \E res \in CURLcodes, bytes \in {E, Obtained} :
         LET got == state.zip_file \o bytes
         IN  IF res # "CURLE_OK"
             THEN /\ state' = [state EXCEPT !.zip_file = got,
                                            !.outp = "zip_find_failed"]
                  /\ ran' = Append(ran, [stage |-> "get_zip_file", ok |-> FALSE])
                  /\ wpc' = "returned"
                  /\ wret' = FALSE
             ELSE /\ state' = [state EXCEPT !.zip_file = got]
                  /\ Succeeds("get_zip_file", "get_codes_file")
    /\ UNCHANGED <<wthreads, zips>>
    /\ UNCHANGED <<argvars, codevars, genvars>>

GetCodesFile ==
    /\ wpc = "get_codes_file"
    /\ \E uncompressed \in BOOLEAN, text \in {E, Obtained} :
         IF ~uncompressed
         THEN Fails("get_codes_file", "extract_file_failed")
         ELSE /\ state' = [state EXCEPT !.order_file = text]
              /\ Succeeds("get_codes_file", "generate_go_files")
    /\ UNCHANGED <<wthreads, zips>>
    /\ UNCHANGED <<argvars, codevars, genvars>>

\* parse_codes and gen_files return nothing; gen_files leaves at least the
\* header in each of the three buffers
GenerateGoFiles ==
    /\ wpc = "generate_go_files"
    /\ state' = [state EXCEPT !.dec_codes = Obtained, !.ndec_codes = Obtained,
                              !.comb_codes = Obtained]
    /\ Succeeds("generate_go_files", "compress_data")
    /\ UNCHANGED <<wthreads, zips>>
    /\ UNCHANGED <<argvars, codevars, genvars>>

\* work starts t1, t2 and t3
WorkSpawn ==
    /\ wpc = "compress_data"
    /\ wthreads' = [t \in WorkThreads |-> "run"]
    /\ Succeeds("compress_data", "join")
    /\ UNCHANGED <<state, zips>>
    /\ UNCHANGED <<argvars, codevars, genvars>>

\* compress_data in thread t; it returns nothing, whatever libzippp answers
CompressData(t) ==
    /\ wpc = "join"
    /\ wthreads[t] = "run"
    /\ wthreads' = [wthreads EXCEPT ![t] = "done"]
    /\ zips' = [zips EXCEPT ![BufferOf(t)] = @ + 1]
    /\ UNCHANGED <<state, wpc, wret, ran>>
    /\ UNCHANGED <<argvars, codevars, genvars>>

Compress == \E t \in WorkThreads : CompressData(t)

\* the three joins have returned
WorkReturn ==
    /\ wpc = "join"
    /\ \A t \in WorkThreads : wthreads[t] = "done"
    /\ wpc' = "returned"
    /\ wret' = TRUE
    /\ UNCHANGED <<state, ran, wthreads, zips>>
    /\ UNCHANGED <<argvars, codevars, genvars>>

\* the ProgramState main hands to work: each of the seven fields loaded from
\* the command line or left empty, outp still ok
InitWork ==
    /\ \E iu, zu, zf, of, dc, nc, cc \in {E, Supplied} :
         state = [icd10_url |-> iu, zip_url |-> zu, zip_file |-> zf,
                  order_file |-> of, dec_codes |-> dc, ndec_codes |-> nc,
                  comb_codes |-> cc, outp |-> "ok"]
    /\ wpc = "work" /\ wret = "none" /\ ran = <<>>
    /\ wthreads = [t \in WorkThreads |-> "none"]
    /\ zips = [b \in OutputBuffers |-> 0]
    /\ ArgsIdle
    /\ CodesIdle
    /\ GenIdle

NextWork ==
    \/ WorkCall
    \/ GetNewestIcd10Link
    \/ GetTabOrderZipLink
    \/ GetZipFile
    \/ GetCodesFile
    \/ GenerateGoFiles
    \/ WorkSpawn
    \/ Compress
    \/ WorkReturn

SpecWork == InitWork /\ [][NextWork]_vars

\* the stages of the chain, in the order the claim gives them
StageOrder == <<"get_newest_icd10_link", "get_tab_order_zip_link", "get_zip_file",
                "get_codes_file", "generate_go_files", "compress_data">>

StageNo(stage) == CHOOSE n \in 1..Len(StageOrder) : StageOrder[n] = stage

\* the non-ok codes each stage sets
CodesOf(stage) ==
    CASE stage = "get_newest_icd10_link" -> {"cms_get_failed", "icd10_find_failed"}
      [] stage = "get_tab_order_zip_link" -> {"icd10_get_failed", "zip_get_failed"}
      [] stage = "get_zip_file" -> {"zip_find_failed"}
      [] stage = "get_codes_file" -> {"extract_file_failed"}
      [] OTHER -> {}

\* the input of the stage after the given one is still empty
NextInputEmpty(stage, s) ==
    CASE stage = "get_newest_icd10_link" -> s.icd10_url = E
      [] stage = "get_tab_order_zip_link" -> s.zip_url = E
      [] stage = "get_zip_file" -> s.zip_file = E
      [] stage = "get_codes_file" -> s.order_file = E
      [] stage = "generate_go_files" ->
            s.dec_codes = E \/ s.ndec_codes = E \/ s.comb_codes = E
      [] stage = "compress_data" -> TRUE

AllOk == \A i \in 1..Len(ran) : ran[i].ok

\* C29: lazy acquisition chain in work.  The stages run in the fixed order
\* fetch CMS page, fetch ICD-10 page, fetch zip, extract, generate, compress,
\* and a stage runs only when the input of the stage after it is still empty.
\* When a stage fails it is the last one to run, work returns false,
\* state.outp holds a non-ok code of that stage and no buffer is compressed;
\* when no stage fails state.outp stays ok, and when work has returned each of
\* the three buffers has been compressed exactly once.
C29_LazyChain ==
    /\ [](/\ \A i \in 1..Len(ran) - 1 :
               StageNo(ran[i].stage) < StageNo(ran[i + 1].stage)
          /\ \A i \in 1..Len(ran) :
               ~ran[i].ok =>
                  /\ i = Len(ran)
                  /\ wpc = "returned" /\ wret = FALSE
                  /\ state.outp # "ok" /\ state.outp \in CodesOf(ran[i].stage)
                  /\ \A b \in OutputBuffers : zips[b] = 0
                  /\ \A t \in WorkThreads : wthreads[t] = "none"
          /\ AllOk => state.outp = "ok"
          /\ \A b \in OutputBuffers : zips[b] <= 1
          /\ (wpc = "returned" /\ AllOk) =>
                  /\ wret = TRUE
                  /\ ran # <<>> /\ ran[Len(ran)].stage = "compress_data"
                  /\ \A b \in OutputBuffers : zips[b] = 1)
    /\ [][Len(ran') > Len(ran) =>
            NextInputEmpty(ran'[Len(ran')].stage, state)]_vars

\* C29 witness: the ICD-10 url was given on the command line, so the chain
\* started at the ICD-10 page; the link and the zip file were fetched, the
\* extraction failed, and work has returned false without compressing
C29_Witness ==
    /\ wpc = "returned" /\ wret = FALSE
    /\ Len(ran) = 3
    /\ ran[1] = [stage |-> "get_tab_order_zip_link", ok |-> TRUE]
    /\ ran[2] = [stage |-> "get_zip_file", ok |-> TRUE]
    /\ ran[3] = [stage |-> "get_codes_file", ok |-> FALSE]
    /\ state.icd10_url = Supplied /\ state.zip_url = Obtained
    /\ state.outp = "extract_file_failed"
    /\ \A b \in OutputBuffers : zips[b] = 0

=============================================================================
